---- MODULE Spec2Model ----
(***************************************************************************)
(* kFeed: the background feed ingestion of main.go (fetchFeedsWorker, its  *)
(* closure fetchAndMarkDone, fetchRSSFeedData, parseDate) over the feeds   *)
(* table of sql/queries/feeds.sql.                                         *)
(*                                                                         *)
(* One scheduler goroutine loops: receive a tick, select a batch, launch   *)
(* one goroutine per selected feed, wait on the WaitGroup.  Each launched  *)
(* goroutine fetches, marks the feed fetched, and inserts the posts.       *)
(***************************************************************************)
EXTENDS Integers, Sequences, FiniteSets, Bags, TLC

\* ------------------------------------------------------------------ bounds
MaxFeeds == 3      \* rows the feeds table may hold
MaxTime == 2       \* the clock runs over 1..MaxTime
MaxItems == 2      \* <item> elements in one fetched document
BatchSize == 2     \* the LIMIT of main.go:476 (10 in the program), scaled down so
                   \* that the table can hold more feeds than one batch takes
MaxTicks == 4      \* periods of the timer that the views counting them follow
MaxRequests == 3   \* follow requests the API view serves

VARIABLES
    feeds,          \* feeds table: sequence of rows, a row's index is its id
    posts,          \* posts table: bag of rows (the fresh uuid is left out)
    now,            \* the clock
    ticker,         \* time.Tick channel (capacity 1): TRUE when a tick is buffered
    pc,             \* scheduler position in the for loop of fetchFeedsWorker
    feedsToFetch,   \* the batch returned by GetNextFeedsToFetch
    waitGroup,      \* the WaitGroup counter
    wpc,            \* per feed: position of its fetchAndMarkDone goroutine
    rss,            \* per feed: the (rss, err) pair fetchRSSFeedData returned
    idx,            \* per feed: index of the range loop at main.go:444
    before,         \* history: last_fetched_at column when the batch was selected
    nitems,         \* history, per feed: items of the document it fetched
    marks,          \* history, per feed: outcomes of its MarkFeedFetched calls
    results,        \* history, per feed: outcomes of its AddPost calls
    hist,           \* history of the scheduler loop: what it did so far
    follows,        \* feed_follows table: bag of rows (the fresh uuid is left out)
    req             \* the POST /v1/feed_follows request being served

vars == <<feeds, posts, now, ticker, pc, feedsToFetch, waitGroup,
          wpc, rss, idx, before, nitems, marks, results, hist, follows, req>>

FeedIds == 1..MaxFeeds

\* ------------------------------------------------------- sql.NullTime etc.
NullTime == [Valid |-> FALSE, Time |-> 0]
SomeTime(t) == [Valid |-> TRUE, Time |-> t]
NullString == [Valid |-> FALSE, String |-> ""]

\* ------------------------------------------------ dates (main.go:35, 526)
\* A date string is modelled by the layout its text is written in and the
\* instant it denotes; <<>> is the empty string.
RFC1123 == "Mon, 02 Jan 2006 15:04:05 MST"
RFC1123Z == "Mon, 02 Jan 2006 15:04:05 -0700"
RFC3339 == "2006-01-02T15:04:05Z07:00"

dateLayouts == <<RFC1123, RFC1123Z, "Mon, 02 Jan 2006 15:04:05 MST">>

\* time.Parse(layout, dateStr): succeeds iff the text is written in layout
timeParse(layout, dateStr) ==
    IF dateStr # <<>> /\ dateStr[1] = layout
    THEN [err |-> FALSE, t |-> dateStr[2]]
    ELSE [err |-> TRUE, t |-> 0]

RECURSIVE parseDateFrom(_, _)
parseDateFrom(k, dateStr) ==
    IF k > Len(dateLayouts) THEN [err |-> TRUE, t |-> 0]
    ELSE LET r == timeParse(dateLayouts[k], dateStr)
         IN IF ~r.err THEN r ELSE parseDateFrom(k + 1, dateStr)

parseDate(dateStr) == parseDateFrom(1, dateStr)

\* ------------------------------------------------------ documents fetched
Item1 == [Title |-> "t1", Link |-> "a", Description |-> "d", PubDate |-> <<RFC1123Z, 1>>]
Item2 == [Title |-> "t2", Link |-> "b", Description |-> "", PubDate |-> <<>>]
Item3 == [Title |-> "t2", Link |-> "b", Description |-> "", PubDate |-> <<RFC3339, 1>>]

ItemSet == {Item1, Item2, Item3}

RECURSIVE SeqsUpTo(_, _)
SeqsUpTo(S, n) ==
    IF n = 0 THEN {<<>>}
    ELSE LET shorter == SeqsUpTo(S, n - 1)
         IN shorter \cup {Append(s, x) : s \in {t \in shorter : Len(t) = n - 1}, x \in S}

Docs == SeqsUpTo(ItemSet, MaxItems)

\* What the remote origin answers to http.Get
Responses ==
    {[getErr |-> TRUE, StatusCode |-> 0, contentType |-> "", readErr |-> FALSE,
      wellFormed |-> FALSE, Items |-> <<>>]}
    \cup {[getErr |-> FALSE, StatusCode |-> 404, contentType |-> "application/xml",
           readErr |-> FALSE, wellFormed |-> TRUE, Items |-> <<>>]}
    \cup {[getErr |-> FALSE, StatusCode |-> 200, contentType |-> "text/html",
           readErr |-> FALSE, wellFormed |-> TRUE, Items |-> <<>>]}
    \cup {[getErr |-> FALSE, StatusCode |-> 200, contentType |-> "application/xml",
           readErr |-> TRUE, wellFormed |-> TRUE, Items |-> <<>>]}
    \cup {[getErr |-> FALSE, StatusCode |-> 200, contentType |-> "application/xml",
           readErr |-> FALSE, wellFormed |-> FALSE, Items |-> <<>>]}
    \cup {[getErr |-> FALSE, StatusCode |-> 200, contentType |-> "application/xml",
           readErr |-> FALSE, wellFormed |-> TRUE, Items |-> d] : d \in Docs}

NoRss == [err |-> "", Items |-> <<>>]

\* fetchRSSFeedData (main.go:497): the (Rss, error) pair; err "" is nil
fetchRSSFeedData(resp) ==
    IF resp.getErr THEN [err |-> "GET error", Items |-> <<>>]
    ELSE IF resp.StatusCode # 200 THEN [err |-> "status error", Items |-> <<>>]
    ELSE IF resp.contentType # "application/xml"
         THEN [err |-> "invalid response 'content-type'", Items |-> <<>>]
    ELSE IF resp.readErr THEN [err |-> "read body", Items |-> <<>>]
    ELSE IF ~resp.wellFormed THEN [err |-> "XML decode error", Items |-> <<>>]
    ELSE [err |-> "", Items |-> resp.Items]

\* --------------------------------------------------------- feeds queries
\* the row CreateFeed inserts (feeds.sql:1, 003_feeds.sql): url is UNIQUE,
\* last_fetched_at starts NULL; updated_at, which MarkFeedFetched sets to the
\* value of last_fetched_at, is left out
NewFeed(id) ==
    [Name |-> "name", Url |-> id, UserID |-> "user", LastFetchedAt |-> NullTime]

Registered == 1..Len(feeds)

\* Variant: ORDER BY last_fetched_at DESC NULLS FIRST
NewestFirstLE(a, b) ==
    \/ ~a.Valid
    \/ a.Valid /\ b.Valid /\ a.Time >= b.Time

\* Variant: ORDER BY last_fetched_at, where PostgreSQL puts the NULLs last
NullsLastLE(a, b) ==
    \/ ~b.Valid
    \/ a.Valid /\ b.Valid /\ a.Time <= b.Time

\* ORDER BY last_fetched_at NULLS FIRST: a sorts no later than b
NullsFirstLE(a, b) ==
    \/ ~a.Valid
    \/ a.Valid /\ b.Valid /\ a.Time <= b.Time

\* Variant: no LIMIT, every row is returned
GetNextFeedsNoLimit(limit) ==
    LET n == Len(feeds)
    IN { s \in [1..n -> Registered] :
           /\ \A i, j \in 1..n : i # j => s[i] # s[j]
           /\ \A i, j \in 1..n : i < j =>
                 NullsFirstLE(feeds[s[i]].LastFetchedAt, feeds[s[j]].LastFetchedAt) }

\* Variant: no ORDER BY, the rows come as they were inserted
GetNextFeedsUnordered(limit) ==
    LET n == IF Len(feeds) < limit THEN Len(feeds) ELSE limit
    IN { [i \in 1..n |-> i] }

\* GetNextFeedsToFetch (feeds.sql:9): every result the query may return;
\* rows with equal keys come in any order
GetNextFeedsToFetch(limit) ==
    LET n == IF Len(feeds) < limit THEN Len(feeds) ELSE limit
    IN { s \in [1..n -> Registered] :
           /\ \A i, j \in 1..n : i # j => s[i] # s[j]
           /\ \A i, j \in 1..n : i < j =>
                 NullsFirstLE(feeds[s[i]].LastFetchedAt, feeds[s[j]].LastFetchedAt)
           /\ \A i \in 1..n : \A g \in Registered :
                 (\A j \in 1..n : s[j] # g) =>
                     NullsFirstLE(feeds[s[i]].LastFetchedAt, feeds[g].LastFetchedAt) }

\* Variant: the UPDATE has no WHERE clause
MarkFeedFetchedAllRows(t, id) ==
    [g \in 1..Len(feeds) |-> [feeds[g] EXCEPT !.LastFetchedAt = SomeTime(t)]]

\* Variant: the UPDATE sets updated_at alone
MarkFeedFetchedUpdatedAtOnly(t, id) == feeds

\* MarkFeedFetched (feeds.sql:14): the table after the UPDATE
MarkFeedFetched(t, id) ==
    [feeds EXCEPT ![id].LastFetchedAt = SomeTime(t)]

\* ------------------------------------------------------------ posts table
\* Variant: the error of parseDate is not tested
AddPostParamsDateUnchecked(post, feedID) ==
    [ Title |-> post.Title,
      Url |-> post.Link,
      Description |-> IF post.Description # ""
                      THEN [Valid |-> TRUE, String |-> post.Description]
                      ELSE NullString,
      PublishedAt |-> IF post.PubDate # <<>>
                      THEN SomeTime(parseDate(post.PubDate).t)
                      ELSE NullTime,
      FeedID |-> feedID ]

\* the AddPostParams assembled at main.go:446-468 for one item
AddPostParams(post, feedID) ==
    [ Title |-> post.Title,
      Url |-> post.Link,
      Description |-> IF post.Description # ""
                      THEN [Valid |-> TRUE, String |-> post.Description]
                      ELSE NullString,
      PublishedAt |-> IF post.PubDate # <<>> /\ ~parseDate(post.PubDate).err
                      THEN SomeTime(parseDate(post.PubDate).t)
                      ELSE NullTime,
      FeedID |-> feedID ]

\* the storage rejects a second row with the same url for the same feed
Duplicate(params) ==
    \E r \in BagToSet(posts) : r.Url = params.Url /\ r.FeedID = params.FeedID

\* AddPost: the outcome of the INSERT; fails is the storage failing it
AddPost(params, fails) ==
    IF Duplicate(params) THEN "duplicate"
    ELSE IF fails THEN "error" ELSE "created"

\* --------------------------------------------- control flow of the worker
\* Variant: the freshness write sits after the error check
stageAfterMarkOnSuccess(stage, err, i, n, res) ==
    CASE stage = "fetch" -> IF err # "" THEN "done" ELSE "mark"
      [] stage = "mark"  -> IF i <= n THEN "store" ELSE "done"
      [] stage = "store" -> IF i <= n THEN "store" ELSE "done"

\* Variant: the freshness write sits after the loop over the items
stageAfterStoreFirst(stage, err, i, n, res) ==
    CASE stage = "fetch" -> IF err = "" /\ i <= n THEN "store" ELSE "mark"
      [] stage = "store" -> IF i <= n THEN "store" ELSE "mark"
      [] stage = "mark"  -> "done"

\* Variant: the loop returns when an AddPost call fails
stageAfterReturnOnError(stage, err, i, n, res) ==
    CASE stage = "fetch" -> "mark"
      [] stage = "mark"  -> IF err # "" THEN "done"
                            ELSE IF i <= n THEN "store" ELSE "done"
      [] stage = "store" -> IF res # "created" THEN "done"
                            ELSE IF i <= n THEN "store" ELSE "done"

\* Variant: a failed fetch is tried again at once
stageAfterRetry(stage, err, i, n, res) ==
    CASE stage = "fetch" -> "mark"
      [] stage = "mark"  -> IF err # "" THEN "fetch"
                            ELSE IF i <= n THEN "store" ELSE "done"
      [] stage = "store" -> IF i <= n THEN "store" ELSE "done"

\* Variant: the loop leaves the last item of the document out
stageAfterSkipsLast(stage, err, i, n, res) ==
    CASE stage = "fetch" -> "mark"
      [] stage = "mark"  -> IF err # "" THEN "done"
                            ELSE IF i < n THEN "store" ELSE "done"
      [] stage = "store" -> IF i < n THEN "store" ELSE "done"

\* The statement fetchAndMarkDone executes after `stage`:
\*   fetch (main.go:434), mark (435), the error check (436-439), one loop
\*   iteration per item (444-470), return with the deferred wg.Done (433).
\* err is fetchRSSFeedData's error ("" is nil), i the index of the next item,
\* n the number of items; res the result of the AddPost call just made.
stageAfter(stage, err, i, n, res) ==
    CASE stage = "fetch" -> "mark"
      [] stage = "mark"  -> IF err # "" THEN "done"
                            ELSE IF i <= n THEN "store" ELSE "done"
      [] stage = "store" -> IF i <= n THEN "store" ELSE "done"

\* Variant: the loop does not wait for the batch
WaitReturnsEarly(counter) == TRUE

\* waitGroup.Wait() (main.go:491) returns when the counter is zero
WaitReturns(counter) == counter = 0

\* ----------------------------------- handlerFeedFollowsPost (main.go:240)
\* the zero uuid.UUID
Nil == 0

\* the feed_id strings of the request bodies: two that are the ids of feeds
\* 1 and 2, one that is a well-formed uuid of no feed, and two that are not
\* uuids
FeedIdStrings == {"uuid-1", "uuid-2", "uuid-9", "not-a-uuid", ""}

\* request bodies: one that json.Decode rejects, and one per feed_id
Bodies ==
    {[json |-> FALSE, FeedID |-> ""]}
    \cup {[json |-> TRUE, FeedID |-> str] : str \in FeedIdStrings}

\* uuid.Parse(s): on error the UUID returned is the zero value
uuidParse(str) ==
    CASE str = "uuid-1" -> [err |-> FALSE, id |-> 1]
      [] str = "uuid-2" -> [err |-> FALSE, id |-> 2]
      [] str = "uuid-9" -> [err |-> FALSE, id |-> 9]
      [] OTHER -> [err |-> TRUE, id |-> Nil]

\* the http.ResponseWriter: the status line sent (0: none yet) and the
\* payloads written to the body
NoResponse == [StatusCode |-> 0, Body |-> <<>>]

\* respondWithJSON (main.go:352): WriteHeader sends the status line once, a
\* later call leaves it; Write appends to the body
respondWithJSON(w, status, payload) ==
    [StatusCode |-> IF w.StatusCode = 0 THEN status ELSE w.StatusCode,
     Body |-> Append(w.Body, payload)]

\* respondWithError (main.go:365)
respondWithError(w, code, msg) == respondWithJSON(w, code, [Error |-> msg])

\* no request is being served
Idle ==
    [pc |-> "idle", body |-> [json |-> FALSE, FeedID |-> ""], feedID |-> Nil,
     parseErr |-> FALSE, w |-> NoResponse, inserted |-> 0, served |-> 0]

NoRequests ==
    /\ follows = EmptyBag
    /\ req = Idle

\* a step that is not of the API
ApiIdle == UNCHANGED <<follows, req>>

\* what the API leaves alone
WorkerIdle ==
    UNCHANGED <<feeds, posts, now, ticker, pc, feedsToFetch, waitGroup,
                wpc, rss, idx, before, nitems, marks, results, hist>>

\* the router hands an authenticated request to the handler (main.go:105)
FollowRequest ==
    /\ req.pc \in {"idle", "returned"}
    /\ req.served < MaxRequests
    /\ \E b \in Bodies :
          req' = [Idle EXCEPT !.pc = "decode", !.body = b, !.served = req.served]
    /\ UNCHANGED follows
    /\ WorkerIdle

\* decoder.Decode(&params) and its error check (main.go:244-253)
FollowDecode ==
    /\ req.pc = "decode"
    /\ req' = IF ~req.body.json
              THEN [req EXCEPT !.w = respondWithError(@, 500, "Something went wrong"),
                               !.pc = "returned", !.served = @ + 1]
              ELSE [req EXCEPT !.pc = "parse"]
    /\ UNCHANGED follows
    /\ WorkerIdle

\* feedID, err := uuid.Parse(params.FeedID); on an error the 400 is written
\* and the handler goes on: the if at main.go:256-258 has no return
FollowParse ==
    /\ req.pc = "parse"
    /\ LET r == uuidParse(req.body.FeedID)
       IN req' = [req EXCEPT !.feedID = r.id,
                             !.parseErr = r.err,
                             !.w = IF r.err THEN respondWithError(@, 400, "Invalid FeedID")
                                   ELSE @,
                             !.pc = "follow"]
    /\ UNCHANGED follows
    /\ WorkerIdle

\* cfg.DB.FollowFeed with FeedID: feedID (main.go:259-272): the storage
\* inserts the row, or fails (a constraint of its schema, a lost connection)
FollowFeed ==
    /\ req.pc = "follow"
    /\ \E ok \in BOOLEAN :
          IF ok
          THEN /\ follows' = follows (+) SetToBag({[UserID |-> "user", FeedID |-> req.feedID]})
               /\ req' = [req EXCEPT !.w = respondWithJSON(@, 201, [FeedID |-> req.feedID]),
                                     !.inserted = @ + 1,
                                     !.pc = "returned", !.served = @ + 1]
          ELSE /\ follows' = follows
               /\ req' = [req EXCEPT !.w = respondWithError(@, 500, "Something went wrong"),
                                     !.pc = "returned", !.served = @ + 1]
    /\ WorkerIdle

\* ------------------------------------------------------------------- Init
\* nothing has happened yet: ticks received, batches started, ticks skipped
\* on a failed query, per feed the batch that last held it (0: none), the
\* feeds a goroutine was launched for, the storage calls that have failed,
\* and the feeds whose latest freshness write failed
NoHistory ==
    [received |-> 0, started |-> 0, skipped |-> 0,
     last |-> [f \in FeedIds |-> 0], attempted |-> {}, failed |-> {}, stale |-> {}]

NoWorkers ==
    /\ pc = "recv"
    /\ feedsToFetch = <<>>
    /\ waitGroup = 0
    /\ wpc = [f \in FeedIds |-> "idle"]
    /\ rss = [f \in FeedIds |-> NoRss]
    /\ idx = [f \in FeedIds |-> 1]
    /\ before = <<>>
    /\ nitems = [f \in FeedIds |-> 0]
    /\ marks = [f \in FeedIds |-> <<>>]
    /\ results = [f \in FeedIds |-> <<>>]

\* process start on an empty database: go apiCfg.fetchFeedsWorker() (main.go:117)
Init ==
    /\ feeds = <<>>
    /\ posts = EmptyBag
    /\ now = 1
    /\ ticker = FALSE
    /\ NoWorkers
    /\ hist = NoHistory
    /\ NoRequests

\* ------------------------------------------------------------ environment
\* time passes
TimePasses ==
    /\ now < MaxTime
    /\ now' = now + 1
    /\ UNCHANGED <<feeds, posts, ticker, pc, feedsToFetch, waitGroup,
                   wpc, rss, idx, before, nitems, marks, results>>

\* the runtime timer of time.Tick (main.go:430) fires: the tick is buffered,
\* or dropped when the channel already holds one
Tick ==
    /\ ticker' = TRUE
    /\ UNCHANGED <<feeds, posts, now, pc, feedsToFetch, waitGroup,
                   wpc, rss, idx, before, nitems, marks, results>>

\* one period of time.Tick(time.Minute) elapses (main.go:430): the clock,
\* counted in periods from 1, advances and the timer fires; the tick is
\* buffered, or dropped when the channel already holds one
Minute ==
    /\ now <= MaxTicks
    /\ now' = now + 1
    /\ ticker' = TRUE
    /\ UNCHANGED <<feeds, posts, pc, feedsToFetch, waitGroup,
                   wpc, rss, idx, before, nitems, marks, results>>

\* handlerFeedsPost: CreateFeed inserts a row, last_fetched_at NULL
CreateFeed ==
    /\ Len(feeds) < MaxFeeds
    /\ feeds' = Append(feeds, NewFeed(Len(feeds) + 1))
    /\ UNCHANGED <<posts, now, ticker, pc, feedsToFetch, waitGroup,
                   wpc, rss, idx, before, nitems, marks, results>>

\* -------------------------------------------------------------- scheduler
\* Variant: the tick is read and left in the channel
ReceiveKeepsTick ==
    /\ pc = "recv"
    /\ ticker
    /\ ticker' = ticker
    /\ pc' = "select"
    /\ UNCHANGED <<feeds, posts, now, feedsToFetch, waitGroup,
                   wpc, rss, idx, before, nitems, marks, results>>

\* <-ticker (main.go:474)
Receive ==
    /\ pc = "recv"
    /\ ticker
    /\ ticker' = FALSE
    /\ pc' = "select"
    /\ UNCHANGED <<feeds, posts, now, feedsToFetch, waitGroup,
                   wpc, rss, idx, before, nitems, marks, results>>

InBatch(f) == \E i \in 1..Len(feedsToFetch) : feedsToFetch[i] = f

\* GetNextFeedsToFetch succeeded: waitGroup.Add(len(feedsToFetch)) and one
\* go fetchAndMarkDone(&waitGroup, feed) per feed (main.go:476, 482-489)
Select ==
    /\ pc = "select"
    /\ \E batch \in GetNextFeedsToFetch(BatchSize) :
          LET launched == {batch[i] : i \in 1..Len(batch)}
          IN /\ feedsToFetch' = batch
             /\ waitGroup' = waitGroup + Len(batch)
             /\ wpc' = [f \in FeedIds |-> IF f \in launched THEN "fetch" ELSE wpc[f]]
             /\ rss' = [f \in FeedIds |-> IF f \in launched THEN NoRss ELSE rss[f]]
             /\ idx' = [f \in FeedIds |-> IF f \in launched THEN 1 ELSE idx[f]]
             /\ nitems' = [f \in FeedIds |-> IF f \in launched THEN 0 ELSE nitems[f]]
             /\ marks' = [f \in FeedIds |-> IF f \in launched THEN <<>> ELSE marks[f]]
             /\ results' = [f \in FeedIds |-> IF f \in launched THEN <<>> ELSE results[f]]
    /\ before' = [i \in 1..Len(feeds) |-> feeds[i].LastFetchedAt]
    /\ pc' = "wait"
    /\ UNCHANGED <<feeds, posts, now, ticker>>

\* Variant: the loop is left when the query fails
SelectFailedReturns ==
    /\ pc = "select"
    /\ pc' = "exit"
    /\ UNCHANGED <<feeds, posts, now, ticker, feedsToFetch, waitGroup,
                   wpc, rss, idx, before, nitems, marks, results>>

\* GetNextFeedsToFetch failed: continue (main.go:477-480)
SelectFailed ==
    /\ pc = "select"
    /\ pc' = "recv"
    /\ UNCHANGED <<feeds, posts, now, ticker, feedsToFetch, waitGroup,
                   wpc, rss, idx, before, nitems, marks, results>>

\* waitGroup.Wait() returns; the loop goes back to <-ticker (main.go:491-493).
\* The goroutines that returned are gone, and their history with them.
Wait ==
    /\ pc = "wait"
    /\ WaitReturns(waitGroup)
    /\ pc' = "recv"
    /\ feedsToFetch' = <<>>
    /\ before' = <<>>
    /\ wpc' = [f \in FeedIds |-> IF wpc[f] = "done" THEN "idle" ELSE wpc[f]]
    /\ nitems' = [f \in FeedIds |-> IF wpc[f] = "done" THEN 0 ELSE nitems[f]]
    /\ marks' = [f \in FeedIds |-> IF wpc[f] = "done" THEN <<>> ELSE marks[f]]
    /\ results' = [f \in FeedIds |-> IF wpc[f] = "done" THEN <<>> ELSE results[f]]
    /\ rss' = [f \in FeedIds |-> IF wpc[f] = "done" THEN NoRss ELSE rss[f]]
    /\ idx' = [f \in FeedIds |-> IF wpc[f] = "done" THEN 1 ELSE idx[f]]
    /\ UNCHANGED <<feeds, posts, now, ticker, waitGroup>>

\* ----------------------------------------------------- fetchAndMarkDone(f)
\* Variant: wg.Done() is deferred and also called after the loop
GotoDoneTwice(f, to, r, i) ==
    /\ wpc' = [wpc EXCEPT ![f] = to]
    /\ waitGroup' = IF to # "done" THEN waitGroup
                    ELSE IF r.err = "" THEN waitGroup - 2 ELSE waitGroup - 1
    /\ rss' = [rss EXCEPT ![f] = r]
    /\ idx' = [idx EXCEPT ![f] = i]

\* Variant: wg.Done() is the last statement of the closure, not deferred
GotoDoneAtEnd(f, to, r, i) ==
    /\ wpc' = [wpc EXCEPT ![f] = to]
    /\ waitGroup' = IF to = "done" /\ r.err = "" THEN waitGroup - 1 ELSE waitGroup
    /\ rss' = [rss EXCEPT ![f] = r]
    /\ idx' = [idx EXCEPT ![f] = i]

\* the goroutine of f moves to stage `to` with locals r and i; on return
\* the deferred wg.Done() runs (main.go:433)
Goto(f, to, r, i) ==
    /\ wpc' = [wpc EXCEPT ![f] = to]
    /\ waitGroup' = IF to = "done" THEN waitGroup - 1 ELSE waitGroup
    /\ rss' = [rss EXCEPT ![f] = r]
    /\ idx' = [idx EXCEPT ![f] = i]

\* Variant: err is one variable of fetchFeedsWorker, shared by the goroutines
errOfShared(f) ==
    IF \E g \in FeedIds : wpc[g] # "idle" /\ rss[g].err # ""
    THEN "shared"
    ELSE rss[f].err

\* the err the goroutine of f tests at main.go:436: the closure's own local
errOf(f) == rss[f].err

\* rss, err := fetchRSSFeedData(feed.Url) (main.go:434) with the origin
\* answering one of R
Fetch(f, R) ==
    /\ wpc[f] = "fetch"
    /\ \E resp \in R :
          LET r == fetchRSSFeedData(resp)
          IN /\ nitems' = [nitems EXCEPT ![f] = Len(r.Items)]
             /\ Goto(f, stageAfter("fetch", r.err, 1, Len(r.Items), ""), r, 1)
    /\ UNCHANGED <<feeds, posts, now, ticker, pc, feedsToFetch, before, marks, results>>

\* Variant: the goroutine returns when the freshness write fails
MarkChecked(f) ==
    /\ wpc[f] = "mark"
    /\ \E ok \in BOOLEAN :
          /\ feeds' = IF ok THEN MarkFeedFetched(now, f) ELSE feeds
          /\ marks' = [marks EXCEPT ![f] = Append(@, ok)]
          /\ Goto(f, IF ok THEN stageAfter("mark", errOf(f), idx[f], Len(rss[f].Items), "")
                     ELSE "done", rss[f], idx[f])
    /\ UNCHANGED <<posts, now, ticker, pc, feedsToFetch, before, nitems, results>>

\* cfg.DB.MarkFeedFetched(ctx, feed.ID), its result dropped (main.go:435);
\* the write succeeds or the storage fails it
Mark(f) ==
    /\ wpc[f] = "mark"
    /\ \E ok \in BOOLEAN :
          /\ feeds' = IF ok THEN MarkFeedFetched(now, f) ELSE feeds
          /\ marks' = [marks EXCEPT ![f] = Append(@, ok)]
    /\ Goto(f, stageAfter("mark", errOf(f), idx[f], Len(rss[f].Items), ""), rss[f], idx[f])
    /\ UNCHANGED <<posts, now, ticker, pc, feedsToFetch, before, nitems, results>>

\* one iteration of the range loop: cfg.DB.AddPost, its result dropped
\* (main.go:444-470); the storage creates the row, rejects it as a
\* duplicate, or fails
Store(f) ==
    /\ wpc[f] = "store"
    /\ idx[f] <= Len(rss[f].Items)
    /\ LET params == AddPostParams(rss[f].Items[idx[f]], f)
       IN \E fails \in BOOLEAN :
            LET res == AddPost(params, fails)
            IN /\ posts' = IF res = "created" THEN posts (+) SetToBag({params})
                           ELSE posts
               /\ results' = [results EXCEPT ![f] = Append(@, res)]
               /\ Goto(f, stageAfter("store", "", idx[f] + 1, Len(rss[f].Items), res),
                       rss[f], idx[f] + 1)
    /\ UNCHANGED <<feeds, now, ticker, pc, feedsToFetch, before, nitems, marks>>

\* -------------------------------------------------------- specifications
\* The scheduling view: every feed of the table, the clock, the ticker and
\* the batches.  The origins answer with a network failure or with a
\* well-formed document that holds no item, so no post is stored.
\* a step of a view that keeps no history
Untracked == UNCHANGED hist /\ ApiIdle

SchedResponses == {r \in Responses : r.Items = <<>> /\ (r.getErr \/ fetchRSSFeedData(r).err = "")}

Next ==
    \/ TimePasses /\ Untracked
    \/ Tick /\ Untracked
    \/ CreateFeed /\ Untracked
    \/ Receive /\ Untracked
    \/ Select /\ Untracked
    \/ SelectFailed /\ Untracked
    \/ Wait /\ Untracked
    \/ \E f \in FeedIds : Fetch(f, SchedResponses) /\ Untracked
    \/ \E f \in FeedIds : Mark(f) /\ Untracked

Spec == Init /\ [][Next]_vars

\* The ingestion view: one registered feed, selected at every tick; its
\* origin answers with any failure or any document.
IngestInit ==
    /\ feeds = <<NewFeed(1)>>
    /\ posts = EmptyBag
    /\ now = 1
    /\ ticker = FALSE
    /\ NoWorkers
    /\ hist = NoHistory
    /\ NoRequests

IngestNext ==
    \/ TimePasses /\ Untracked
    \/ Tick /\ Untracked
    \/ Receive /\ Untracked
    \/ Select /\ Untracked
    \/ SelectFailed /\ Untracked
    \/ Wait /\ Untracked
    \/ \E f \in FeedIds : Fetch(f, Responses) /\ Untracked
    \/ \E f \in FeedIds : Mark(f) /\ Untracked
    \/ \E f \in FeedIds : Store(f) /\ Untracked

IngestSpec == IngestInit /\ [][IngestNext]_vars

\* The goroutines are scheduled by the Go runtime: a goroutine that can take
\* its next step takes it, and a storage call returns.  The timer, the clock
\* and the network are left free (http.Get has no deadline).
IngestFairSpec ==
    /\ IngestSpec
    /\ WF_vars(Receive /\ Untracked)
    /\ WF_vars((Select \/ SelectFailed) /\ Untracked)
    /\ WF_vars(Wait /\ Untracked)
    /\ \A f \in FeedIds : WF_vars((Mark(f) \/ Store(f)) /\ Untracked)

\* The ingestion view when, besides, every http.Get returns
IngestLiveSpec ==
    /\ IngestFairSpec
    /\ \A f \in FeedIds : WF_vars(Fetch(f, Responses) /\ Untracked)

\* The batch view: two registered feeds, selected together at every tick;
\* each origin answers 404, or with a malformed document, or with the first
\* items of one of two documents.
RECURSIVE Prefixes(_)
Prefixes(s) == IF s = <<>> THEN {<<>>} ELSE {s} \cup Prefixes(SubSeq(s, 1, Len(s) - 1))

BatchDocs ==
    {d \in Prefixes(<<Item3, Item1, Item2, Item1>>) \cup Prefixes(<<Item2, Item1, Item3, Item1>>) :
        Len(d) <= MaxItems}

BatchResponses ==
    {r \in Responses :
        /\ r.Items \in BatchDocs
        /\ fetchRSSFeedData(r).err \in {"", "status error", "XML decode error"}}

BatchInit ==
    /\ feeds = <<NewFeed(1), NewFeed(2)>>
    /\ posts = EmptyBag
    /\ now = 1
    /\ ticker = FALSE
    /\ NoWorkers
    /\ hist = NoHistory
    /\ NoRequests

BatchNext ==
    \/ Tick /\ Untracked
    \/ Receive /\ Untracked
    \/ Select /\ Untracked
    \/ SelectFailed /\ Untracked
    \/ Wait /\ Untracked
    \/ \E f \in FeedIds : Fetch(f, BatchResponses) /\ Untracked
    \/ \E f \in FeedIds : Mark(f) /\ Untracked
    \/ \E f \in FeedIds : Store(f) /\ Untracked

BatchSpec == BatchInit /\ [][BatchNext]_vars

\* The views that keep the history of the loop: what a step adds to it.
\* <-ticker returned
TickReceived == hist' = [hist EXCEPT !.received = @ + 1]

\* the feeds of the batch just selected
Launched == {feedsToFetch'[i] : i \in 1..Len(feedsToFetch')}

\* a batch was launched, its number not counted
SourcesSelected == hist' = [hist EXCEPT !.attempted = @ \cup Launched]

\* the query failed, the skipped tick not counted
StorageFailed == hist' = [hist EXCEPT !.failed = @ \cup {"GetNextFeedsToFetch"}]

\* a batch was launched: it is batch number started + 1
BatchStarted ==
    hist' = [hist EXCEPT
               !.started = @ + 1,
               !.attempted = @ \cup Launched,
               !.last = [f \in FeedIds |->
                           IF f \in Launched THEN hist.started + 1 ELSE @[f]]]

\* the query failed and the tick was skipped
TickSkipped ==
    hist' = [hist EXCEPT !.skipped = @ + 1, !.failed = @ \cup {"GetNextFeedsToFetch"}]

\* the goroutine of f made its MarkFeedFetched call
MarkCalled(f) ==
    hist' = [hist EXCEPT !.failed = IF marks'[f][Len(marks'[f])] THEN @
                                    ELSE @ \cup {"MarkFeedFetched"}]

\* The timer view: one registered feed, the clock counted in periods of
\* the timer, the ticks received, the batches started and the ticks skipped
\* counted; the origin answers as in the scheduling view.
TickNext ==
    \/ Minute /\ Untracked
    \/ Receive /\ TickReceived /\ ApiIdle
    \/ Select /\ BatchStarted /\ ApiIdle
    \/ SelectFailed /\ TickSkipped /\ ApiIdle
    \/ Wait /\ Untracked
    \/ \E f \in FeedIds : Fetch(f, SchedResponses) /\ Untracked
    \/ \E f \in FeedIds : Mark(f) /\ MarkCalled(f) /\ ApiIdle

TickSpec == IngestInit /\ [][TickNext]_vars

\* The liveness view: the scheduling view with the feeds selected so far and
\* the storage failures remembered.  The timer keeps firing and every
\* http.Get returns; the goroutines are scheduled by the Go runtime.  The
\* clock and the registration of feeds are left free, and so is the storage:
\* a query or a write may fail every time.
LiveNext ==
    \/ TimePasses /\ Untracked
    \/ Tick /\ Untracked
    \/ CreateFeed /\ Untracked
    \/ Receive /\ Untracked
    \/ Select /\ SourcesSelected /\ ApiIdle
    \/ SelectFailed /\ StorageFailed /\ ApiIdle
    \/ Wait /\ Untracked
    \/ \E f \in FeedIds : Fetch(f, SchedResponses) /\ Untracked
    \/ \E f \in FeedIds : Mark(f) /\ MarkCalled(f) /\ ApiIdle

LiveSpec ==
    /\ Init
    /\ [][LiveNext]_vars
    /\ WF_vars(Tick /\ Untracked)
    /\ WF_vars(Receive /\ Untracked)
    /\ WF_vars(((Select /\ SourcesSelected) \/ (SelectFailed /\ StorageFailed)) /\ ApiIdle)
    /\ WF_vars(Wait /\ Untracked)
    /\ \A f \in FeedIds : WF_vars(Fetch(f, SchedResponses) /\ Untracked)
    /\ \A f \in FeedIds : WF_vars(Mark(f) /\ MarkCalled(f) /\ ApiIdle)

\* the goroutine of f made its MarkFeedFetched call: f is stale when the
\* write failed
MarkTracked(f) ==
    hist' = [hist EXCEPT !.stale = IF marks'[f][Len(marks'[f])] THEN @ \ {f}
                                   ELSE @ \cup {f}]

\* The staleness view: as many registered feeds as the table holds, more
\* than a batch takes; each origin answers 404 or with a document of one
\* item; the feeds whose latest freshness write failed are remembered.
StaleResponses ==
    {r \in Responses :
        /\ r.Items \in {<<>>, <<Item1>>}
        /\ fetchRSSFeedData(r).err \in {"", "status error"}
        /\ fetchRSSFeedData(r).err = "" => r.Items # <<>>}

StaleInit ==
    /\ feeds = [i \in 1..MaxFeeds |-> NewFeed(i)]
    /\ posts = EmptyBag
    /\ now = 1
    /\ ticker = FALSE
    /\ NoWorkers
    /\ hist = NoHistory
    /\ NoRequests

StaleNext ==
    \/ TimePasses /\ Untracked
    \/ Tick /\ Untracked
    \/ Receive /\ Untracked
    \/ Select /\ Untracked
    \/ Wait /\ Untracked
    \/ \E f \in FeedIds : Fetch(f, StaleResponses) /\ Untracked
    \/ \E f \in FeedIds : Mark(f) /\ MarkTracked(f) /\ ApiIdle
    \/ \E f \in FeedIds : Store(f) /\ Untracked

StaleSpec == StaleInit /\ [][StaleNext]_vars

\* The rotation view: as many registered feeds as the table holds, the
\* clock counted in periods of the timer, the batches numbered.  The batch
\* query and the freshness writes succeed, and a tick is received at a time
\* later than every timestamp written so far: the timestamps of a batch are
\* later than those of the batches before it.
LaterThanEveryMark ==
    \A g \in Registered :
        feeds[g].LastFetchedAt.Valid => feeds[g].LastFetchedAt.Time < now

MarkSucceeded(f) == marks'[f][Len(marks'[f])]

RotateNext ==
    \/ Minute /\ Untracked
    \/ Receive /\ LaterThanEveryMark /\ TickReceived /\ ApiIdle
    \/ Select /\ BatchStarted /\ ApiIdle
    \/ Wait /\ Untracked
    \/ \E f \in FeedIds : Fetch(f, SchedResponses) /\ Untracked
    \/ \E f \in FeedIds : Mark(f) /\ MarkSucceeded(f) /\ Untracked

RotateSpec == StaleInit /\ [][RotateNext]_vars

\* The API view: the feeds of the batch view registered, the worker not
\* scheduled, follow requests served one after the other.
FollowNext ==
    \/ FollowRequest
    \/ FollowDecode
    \/ FollowParse
    \/ FollowFeed

FollowSpec == BatchInit /\ [][FollowNext]_vars

\* ================================================================ claims
Running(f) == wpc[f] \in {"fetch", "mark", "store"}

\* the batch is complete: the scheduler is at waitGroup.Wait() and every
\* goroutine of the batch has returned
BatchComplete == pc = "wait" /\ \A f \in FeedIds : InBatch(f) => wpc[f] = "done"

\* C1: whenever the goroutine of a batch starts, no goroutine of an earlier
\* batch is still running or unjoined, however many ticks fired meanwhile.
C1_BatchesSerialized ==
    [][ (\E f \in FeedIds : wpc[f] # "fetch" /\ wpc'[f] = "fetch")
            => \A g \in FeedIds : wpc[g] = "idle" ]_vars

\* C1 witness: a tick fired while one goroutine of the batch is running and
\* another has already returned.
C1_Witness ==
    /\ pc = "wait"
    /\ ticker
    /\ \E f, g \in FeedIds : Running(f) /\ wpc[g] = "done"

\* C2: an invocation of fetchAndMarkDone that has returned has called
\* MarkFeedFetched exactly once, and no invocation calls it twice, whatever
\* fetchRSSFeedData returned.
C2_OneMarkPerInvocation ==
    \A f \in FeedIds :
        /\ Len(marks[f]) <= 1
        /\ wpc[f] = "done" => Len(marks[f]) = 1

\* C2 witness: the document failed to parse and the invocation returned
\* with its one freshness write made.
C2_Witness ==
    \E f \in FeedIds :
        wpc[f] = "done" /\ rss[f].err = "XML decode error" /\ Len(marks[f]) = 1

Selected == {feedsToFetch[i] : i \in 1..Len(feedsToFetch)}
LeftOut == (1..Len(before)) \ Selected

\* C4: a batch leaves a feed out only when it is full; then no feed of the
\* batch had been fetched while a feed left out was never fetched, and no
\* fetched feed of the batch had a freshness timestamp newer than a feed
\* left out.
C4_NullsFirstOldestFirst ==
    pc = "wait" =>
        /\ Len(feedsToFetch) <= BatchSize
        /\ LeftOut # {} => Len(feedsToFetch) = BatchSize
        /\ \A f \in Selected : \A g \in LeftOut :
              /\ ~before[g].Valid => ~before[f].Valid
              /\ before[f].Valid => before[f].Time <= before[g].Time

\* C4 witness: a full batch holds a never-fetched feed and a fetched one,
\* and leaves out a feed fetched more recently.
C4_Witness ==
    /\ pc = "wait"
    /\ \E f1, f2 \in Selected : \E g \in LeftOut :
          /\ ~before[f1].Valid
          /\ before[f2].Valid
          /\ before[f2].Time < before[g].Time

\* lexical order of two freshness values, NULL below every timestamp
FreshnessLE(a, b) == (a.Valid => b.Valid) /\ (a.Valid /\ b.Valid => a.Time <= b.Time)

\* C5 as stated: when the batch is complete, every feed of the batch has a
\* non-null freshness timestamp, no older than the one it was selected with.
C5_FreshAfterTick ==
    BatchComplete =>
        \A f \in Selected :
            /\ feeds[f].LastFetchedAt.Valid
            /\ FreshnessLE(before[f], feeds[f].LastFetchedAt)

\* C5 amended: when the batch is complete, every feed of the batch whose
\* MarkFeedFetched call succeeded has a non-null freshness timestamp, and
\* every feed of the batch has a freshness no older than the one it was
\* selected with; in every step a feed's freshness stays or advances, and
\* never returns to NULL.
C5_FreshnessMonotone ==
    /\ [](BatchComplete =>
            \A f \in Selected :
                /\ marks[f] = <<TRUE>> => feeds[f].LastFetchedAt.Valid
                /\ FreshnessLE(before[f], feeds[f].LastFetchedAt))
    /\ [][\A f \in 1..Len(feeds) :
            FreshnessLE(feeds[f].LastFetchedAt, feeds'[f].LastFetchedAt)]_vars

\* C5 witness: the fetch failed, the freshness write succeeded, and the
\* feed's timestamp is newer than the one it was selected with.
C5_Witness ==
    /\ BatchComplete
    /\ \E f \in Selected :
          /\ rss[f].err # ""
          /\ marks[f] = <<TRUE>>
          /\ before[f].Valid
          /\ before[f].Time < feeds[f].LastFetchedAt.Time

\* the rows of the posts table that belong to feed f with link url
PostsOf(f, url) == {r \in BagToSet(posts) : r.FeedID = f /\ r.Url = url}

\* C6: when the batch is complete and the fetch of A failed, every other
\* feed B of the batch whose document parsed has had every item's insertion
\* attempted, a row exists for each item the storage did not fail, and B's
\* freshness write was made; A made no insertion and its freshness write was
\* made.  TLC explores every interleaving of the two goroutines.
C6_Isolation ==
    BatchComplete =>
        \A A, B \in Selected :
            (A # B /\ rss[A].err # "" /\ rss[B].err = "") =>
                /\ Len(results[B]) = Len(rss[B].Items)
                /\ \A k \in 1..Len(rss[B].Items) :
                      results[B][k] # "error" => PostsOf(B, rss[B].Items[k].Link) # {}
                /\ Len(marks[B]) = 1
                /\ marks[B] = <<TRUE>> => feeds[B].LastFetchedAt.Valid
                /\ results[A] = <<>>
                /\ Len(marks[A]) = 1
                /\ marks[A] = <<TRUE>> => feeds[A].LastFetchedAt.Valid

\* C6 witness: A's document is malformed, B's has two items; A has no post
\* and is marked, B has its two posts and is marked.
C6_Witness ==
    /\ BatchComplete
    /\ \E A, B \in Selected :
          /\ rss[A].err = "XML decode error"
          /\ results[A] = <<>>
          /\ marks[A] = <<TRUE>>
          /\ rss[B].err = ""
          /\ results[B] = <<"created", "created">>
          /\ marks[B] = <<TRUE>>

\* C7: a goroutine whose fetch failed, for whatever cause, calls AddPost not
\* once and leaves the posts table alone, makes its one freshness write (the
\* feed's freshness is set when the storage accepts it), and returns; the
\* scheduler then comes back to waiting for the next tick.
C7_FetchFailure ==
    /\ [](\A f \in FeedIds :
            (wpc[f] = "done" /\ rss[f].err # "") =>
                /\ results[f] = <<>>
                /\ Len(marks[f]) = 1
                /\ marks[f] = <<TRUE>> => feeds[f].LastFetchedAt.Valid)
    /\ [][\A f \in FeedIds :
            (wpc[f] # "idle" /\ rss[f].err # "") => posts' = posts]_vars
    /\ \A f \in FeedIds : (wpc[f] = "done" /\ rss[f].err # "") ~> (pc = "recv")

\* C7 witness: the origin answered 404; the goroutine returned with no post
\* and the feed's freshness set.
C7_Witness ==
    \E f \in FeedIds :
        /\ wpc[f] = "done"
        /\ rss[f].err = "status error"
        /\ results[f] = <<>>
        /\ marks[f] = <<TRUE>>
        /\ feeds[f].LastFetchedAt.Valid
        /\ posts = EmptyBag

\* C8: with a storage that rejects a duplicate insert, the posts table
\* never holds two rows with the same link and feed; a rejected insert stops
\* neither the goroutine, which attempts every item, nor the batch, whose
\* join returns.
C8_NoDuplicateRows ==
    /\ \A r1, r2 \in BagToSet(posts) :
          (r1.Url = r2.Url /\ r1.FeedID = r2.FeedID) =>
              r1 = r2 /\ CopiesIn(r1, posts) = 1
    /\ \A f \in FeedIds :
          (wpc[f] = "done" /\ rss[f].err = "") => Len(results[f]) = Len(rss[f].Items)
    /\ BatchComplete => ENABLED Wait

\* C8 witness: a document whose two posts are stored already is ingested
\* again; both inserts are rejected and the goroutine returns.
C8_Witness ==
    \E f \in FeedIds :
        /\ wpc[f] = "done"
        /\ rss[f].Items = <<Item1, Item2>>
        /\ results[f] = <<"duplicate", "duplicate">>
        /\ \A k \in 1..2 : Cardinality(PostsOf(f, rss[f].Items[k].Link)) = 1

\* the step is an AddPost call of the goroutine of f
AddPostStep(f) == wpc[f] = "store" /\ results'[f] # results[f]

\* C9: whatever the outcome of the AddPost call for item k, the goroutine
\* goes on to item k + 1 when there is one, and returns (wg.Done) after the
\* last.
C9_ItemFailuresSkipped ==
    [][\A f \in FeedIds :
        AddPostStep(f) =>
            /\ Len(results'[f]) = idx[f]
            /\ IF idx[f] < Len(rss[f].Items)
               THEN wpc'[f] = "store" /\ idx'[f] = idx[f] + 1 /\ waitGroup' = waitGroup
               ELSE wpc'[f] = "done" /\ waitGroup' = waitGroup - 1]_vars

\* C9 witness: the insert of the first item failed, the second was created,
\* and the goroutine returned.
C9_Witness ==
    \E f \in FeedIds : wpc[f] = "done" /\ results[f] = <<"error", "created">>

\* a publish-date string that is empty or written in none of dateLayouts
NoLayoutMatches(d) == d = <<>> \/ d[1] \notin {RFC1123, RFC1123Z}

\* C10: the AddPost call for an item whose publish date is empty or matches
\* no layout adds, unless the storage rejects or fails it, exactly one row
\* with that item's title and link, the feed's id and no publish date; the
\* loop goes on to the next item and the other goroutine of the batch is
\* left as it is.
C10_UnparsedDateStored ==
    [][\A f \in FeedIds :
        (AddPostStep(f) /\ NoLayoutMatches(rss[f].Items[idx[f]].PubDate)) =>
            LET item == rss[f].Items[idx[f]]
                res == results'[f][Len(results'[f])]
            IN /\ res = "created" =>
                    \E row \in BagToSet(posts') :
                        /\ posts' = posts (+) SetToBag({row})
                        /\ row.Url = item.Link
                        /\ row.Title = item.Title
                        /\ row.FeedID = f
                        /\ ~row.PublishedAt.Valid
               /\ res # "created" => posts' = posts
               /\ res = "duplicate" => PostsOf(f, item.Link) # {}
               /\ idx[f] < Len(rss[f].Items) => wpc'[f] = "store"
               /\ \A g \in FeedIds \ {f} :
                     /\ wpc'[g] = wpc[g]
                     /\ rss'[g] = rss[g]
                     /\ idx'[g] = idx[g]
                     /\ results'[g] = results[g]]_vars

\* C10 witness: in one batch, the first item of f has a date that matches no
\* layout and the first item of g an empty date; each is stored without a
\* publish date, and the item after it with its parsed date.
C10_Witness ==
    /\ BatchComplete
    /\ \E f, g \in Selected :
          /\ rss[f].Items = <<Item3, Item1>>
          /\ rss[g].Items = <<Item2, Item1>>
          /\ results[f] = <<"created", "created">>
          /\ results[g] = <<"created", "created">>
          /\ \A h \in {f, g} :
                /\ \E r \in PostsOf(h, "b") : ~r.PublishedAt.Valid
                /\ \E r \in PostsOf(h, "a") : r.PublishedAt.Valid

\* every AddPost call of the goroutine of f so far created its row
AllCreated(f) == \A k \in 1..Len(results[f]) : results[f][k] = "created"

\* C11: a goroutine whose document was fetched and parsed with n items
\* returns after exactly n AddPost calls and one freshness write; its k-th
\* call is made for the k-th item of the document, with the parameters
\* assembled from that item whatever optional field it lacks, and adds
\* exactly that one row when the storage accepts it and none otherwise.
\* When the storage accepted every call, a row exists for each item, and
\* the feed's freshness is set when the storage accepted that write too.
C11_OneInsertPerItem ==
    /\ [](\A f \in FeedIds :
            (wpc[f] = "done" /\ rss[f].err = "") =>
                /\ Len(results[f]) = Len(rss[f].Items)
                /\ Len(marks[f]) = 1
                /\ AllCreated(f) =>
                      \A k \in 1..Len(rss[f].Items) :
                          CopiesIn(AddPostParams(rss[f].Items[k], f), posts) = 1
                /\ marks[f] = <<TRUE>> =>
                      /\ feeds[f].LastFetchedAt.Valid
                      /\ feeds[f].LastFetchedAt.Time <= now)
    /\ [][\A f \in FeedIds :
            AddPostStep(f) =>
                LET k == Len(results[f]) + 1
                    params == AddPostParams(rss[f].Items[k], f)
                IN /\ k = idx[f]
                   /\ Len(results'[f]) = k
                   /\ SubSeq(results'[f], 1, k - 1) = results[f]
                   /\ posts' = IF results'[f][k] = "created"
                                THEN posts (+) SetToBag({params})
                                ELSE posts]_vars

\* C11 witness: a never-fetched feed whose document has two items, the
\* second without pubDate and without description: two AddPost calls, two
\* rows created, one of them with no publish date, and the freshness set.
C11_Witness ==
    \E f \in FeedIds :
        /\ wpc[f] = "done"
        /\ ~before[f].Valid
        /\ rss[f].Items = <<Item1, Item2>>
        /\ results[f] = <<"created", "created">>
        /\ BagCardinality(posts) = 2
        /\ Cardinality({r \in BagToSet(posts) : ~r.PublishedAt.Valid}) = 1
        /\ marks[f] = <<TRUE>>
        /\ feeds[f].LastFetchedAt = SomeTime(now)

\* the step is the scheduler leaving the query of main.go:476 without a batch
FailedQueryStep == pc = "select" /\ pc' \notin {"select", "wait"}

\* C12: when GetNextFeedsToFetch fails, the step launches no goroutine (none
\* is running before or after it), leaves the feeds table, the posts table,
\* the WaitGroup and the ticker as they are, and takes the loop back to
\* <-ticker; there the loop receives the next tick once it is buffered, and
\* from the query it can again launch a batch.
C12_FailedQuerySkipsTick ==
    /\ [][FailedQueryStep =>
            /\ pc' = "recv"
            /\ \A f \in FeedIds : wpc[f] = "idle" /\ wpc'[f] = "idle"
            /\ UNCHANGED <<feeds, posts, waitGroup, ticker, feedsToFetch>>]_vars
    /\ [](pc \in {"recv", "select", "wait"})
    /\ []((pc = "recv" /\ ticker) => ENABLED (Receive /\ TickReceived))
    /\ [](pc = "select" => ENABLED (Select /\ BatchStarted))

\* C12 witness: of two ticks received, the first was skipped on a failed
\* query and the second launched a batch, whose goroutine has returned.
C12_Witness ==
    /\ hist.received = 2
    /\ hist.skipped = 1
    /\ hist.started = 1
    /\ BatchComplete
    /\ Selected # {}

\* a goroutine was launched for f and its fetchRSSFeedData call has returned
Attempted(f) == f \in hist.attempted /\ wpc[f] # "fetch"

InFlight == {f \in FeedIds : Running(f)}

\* C14: at every moment at most BatchSize goroutines are launched and not
\* yet returned, and the WaitGroup counter, which counts them, is at most
\* BatchSize, however many feeds are registered and however many ticks fired.
C14_InFlightBounded ==
    /\ Cardinality(InFlight) <= BatchSize
    /\ waitGroup = Cardinality(InFlight)
    /\ Len(feedsToFetch) <= BatchSize

\* C14 witness: more feeds are registered than a batch takes, a full batch
\* is in flight, and a further tick has fired.
C14_Witness ==
    /\ Len(feeds) > BatchSize
    /\ Cardinality(InFlight) = BatchSize
    /\ ticker
    /\ \E f \in Registered : feeds[f].LastFetchedAt.Valid

\* the step starts a goroutine for f
LaunchStep(f) == wpc[f] # "fetch" /\ wpc'[f] = "fetch"

\* C15: the feeds of one batch are distinct, so no feed has two goroutines
\* in a batch; a goroutine is started only by the scheduler's step from the
\* query, for a feed that has none, and the scheduler comes to the query
\* only by receiving a tick; once the fetch of f has returned, failed or
\* not, f is not fetched again by its goroutine.
C15_OncePerTick ==
    /\ [](\A i, j \in 1..Len(feedsToFetch) :
            i # j => feedsToFetch[i] # feedsToFetch[j])
    /\ [](waitGroup <= Cardinality(Selected))
    /\ [][\A f \in FeedIds :
            LaunchStep(f) =>
                /\ wpc[f] = "idle"
                /\ pc = "select" /\ pc' = "wait"
                /\ f \in {feedsToFetch'[i] : i \in 1..Len(feedsToFetch')}]_vars
    /\ [][(pc # "select" /\ pc' = "select") => (ticker /\ ~ticker')]_vars
    /\ [][\A f \in FeedIds :
            wpc[f] \in {"mark", "store", "done"} => wpc'[f] # "fetch"]_vars

\* C15 witness: a feed whose fetch failed in an earlier batch and fails
\* again in this one has returned, while a further tick is buffered.
C15_Witness ==
    /\ pc = "wait"
    /\ ticker
    /\ \E f \in Selected :
          /\ wpc[f] = "done"
          /\ rss[f].err = "GET error"
          /\ before[f].Valid

\* C16: a goroutine's return takes exactly one from the WaitGroup counter,
\* which nothing else lowers and which stays equal to the number of
\* goroutines running; a goroutine that returned does nothing more until the
\* join.  With every fetch returning, the scheduler at waitGroup.Wait()
\* eventually is back at <-ticker.
C16_DoneOncePerWorker ==
    /\ [](waitGroup = Cardinality(InFlight))
    /\ [][\A f \in FeedIds :
            (wpc[f] # "done" /\ wpc'[f] = "done") =>
                Running(f) /\ waitGroup' = waitGroup - 1]_vars
    /\ [][waitGroup' < waitGroup =>
            \E f \in FeedIds : Running(f) /\ wpc'[f] = "done"]_vars
    /\ [][\A f \in FeedIds :
            wpc[f] = "done" =>
                /\ wpc'[f] \in {"done", "idle"}
                /\ wpc'[f] = "idle" => pc = "wait" /\ pc' = "recv"]_vars
    /\ (pc = "wait") ~> (pc = "recv")

\* C16 witness: the goroutine returned after one insert failed and one was
\* rejected; the counter is zero and the join can complete.
C16_Witness ==
    /\ pc = "wait"
    /\ waitGroup = 0
    /\ \E f \in Selected :
          /\ wpc[f] = "done"
          /\ results[f] = <<"error", "duplicate">>

\* the step is one of the goroutine of f
WorkerStep(f) ==
    Running(f) /\ (wpc'[f] # wpc[f] \/ idx'[f] # idx[f])

\* C17: a step of the goroutine of f leaves the number of feeds, every
\* other feed's row, and the name, url and owner of f's row as they are; it
\* removes and changes no row of the posts table, and a row it adds belongs
\* to f.
C17_WorkerFrame ==
    [][\A f \in FeedIds :
        WorkerStep(f) =>
            /\ Len(feeds') = Len(feeds)
            /\ \A g \in Registered : g # f => feeds'[g] = feeds[g]
            /\ feeds'[f] = [feeds[f] EXCEPT !.LastFetchedAt = feeds'[f].LastFetchedAt]
            /\ \A r \in BagToSet(posts) : CopiesIn(r, posts') >= CopiesIn(r, posts)
            /\ \A r \in BagToSet(posts') :
                  CopiesIn(r, posts') > CopiesIn(r, posts) => r.FeedID = f]_vars

\* C17 witness: the goroutine of one feed has marked it and added a post
\* while the other feed of the batch is still unmarked and has a post of an
\* earlier batch.
C17_Witness ==
    \E f, g \in Selected :
        /\ f # g
        /\ marks[f] = <<TRUE>>
        /\ results[f] = <<"created">>
        /\ feeds[f].LastFetchedAt.Valid
        /\ wpc[g] = "fetch"
        /\ ~feeds[g].LastFetchedAt.Valid
        /\ \E r \in BagToSet(posts) : r.FeedID = g

\* the step is a MarkFeedFetched call of the goroutine of f that failed
MarkFailedStep(f) ==
    /\ wpc[f] = "mark"
    /\ Len(marks'[f]) = Len(marks[f]) + 1
    /\ ~marks'[f][Len(marks'[f])]

\* the step launches a batch
SelectStep == pc = "select" /\ pc' = "wait"

\* a failed freshness write changes no row of the feeds table and does not
\* stop the goroutine: it goes on to the items when the fetch succeeded and
\* returns as it would have; when it has returned the feed's freshness is
\* what it was at selection and every item has had its AddPost call
FailedMarkIgnored ==
    /\ [][\A f \in FeedIds :
            MarkFailedStep(f) =>
                /\ feeds' = feeds
                /\ wpc'[f] = IF rss[f].err = "" /\ rss[f].Items # <<>>
                              THEN "store" ELSE "done"]_vars
    /\ [](\A f \in FeedIds :
            (wpc[f] = "done" /\ marks[f] = <<FALSE>>) =>
                /\ feeds[f].LastFetchedAt = before[f]
                /\ rss[f].err = "" =>
                      /\ Len(results[f]) = Len(rss[f].Items)
                      /\ \A k \in 1..Len(results[f]) :
                            results[f][k] # "error" =>
                                PostsOf(f, rss[f].Items[k].Link) # {})

\* C18 as stated: a failed freshness write is ignored, and the next batch
\* launched holds every feed whose latest freshness write failed.
C18_StaleSelectedNext ==
    /\ FailedMarkIgnored
    /\ [][SelectStep => hist.stale \subseteq Launched]_vars

\* C18 amended: a failed freshness write is ignored, and a feed whose latest
\* freshness write failed keeps its place in the order of the query: the
\* next batch launched holds it, or holds only feeds whose freshness is not
\* newer than its own.
C18_StaleKeepsPlace ==
    /\ FailedMarkIgnored
    /\ [][SelectStep =>
            \A f \in hist.stale :
                \/ f \in Launched
                \/ \A g \in Launched :
                      NullsFirstLE(feeds[g].LastFetchedAt, feeds[f].LastFetchedAt)]_vars

\* C18 witness: a feed whose every freshness write failed, and which has a
\* post stored all the same, is selected again while a feed with a
\* timestamp is left out.
C18_Witness ==
    /\ pc = "wait"
    /\ \E f \in Selected \cap hist.stale :
          /\ wpc[f] = "fetch"
          /\ ~before[f].Valid
          /\ \E r \in BagToSet(posts) : r.FeedID = f
          /\ \E g \in LeftOut : before[g].Valid

\* ceil(N / B) for the N registered feeds and the batch size B
Rounds == (Len(feeds) + BatchSize - 1) \div BatchSize

Fired == now - 1

\* the ticks buffered in the channel
Pending == IF ticker THEN 1 ELSE 0

\* C20: every tick received was fired, and those fired beyond the ones
\* received left at most the one that is buffered; receiving a tick empties
\* the channel, so after a batch during which several ticks fired one tick
\* is received and the next receive waits for the timer; every batch
\* started and every tick skipped answers one tick received, so the batches
\* started never outnumber the ticks fired.
C20_TicksCoalesced ==
    /\ [](hist.received + Pending <= Fired)
    /\ [](hist.started + hist.skipped + (IF pc = "select" THEN 1 ELSE 0) = hist.received)
    /\ [](hist.started <= Fired)
    /\ [][hist'.received # hist.received =>
            /\ hist'.received = hist.received + 1
            /\ ticker /\ ~ticker'
            /\ now' = now]_vars
    /\ [][(pc = "wait" /\ pc' = "recv") => Pending' <= 1]_vars

\* C20 witness: three ticks fired, the first started the batch that has now
\* completed, and of the two that fired meanwhile one is buffered.
C20_Witness ==
    /\ BatchComplete
    /\ Selected # {}
    /\ Fired = 3
    /\ hist.received = 1
    /\ hist.started = 1
    /\ ticker

\* the handler has returned from a request whose body decoded and whose
\* feed_id is no uuid
InvalidFeedIdServed ==
    /\ req.pc = "returned"
    /\ req.body.json
    /\ uuidParse(req.body.FeedID).err

\* C21: a follow request whose feed_id is not a valid identifier is
\* answered with exactly one error response, and no FollowFeed insertion is
\* made for it.
C21_InvalidFeedIdRejected ==
    InvalidFeedIdServed =>
        /\ req.w.StatusCode = 400
        /\ Len(req.w.Body) = 1
        /\ req.inserted = 0

\* C21 witness: for a feed_id that is no uuid the 400 was written, then the
\* row was inserted with the zero uuid and the follow written to the same
\* response.
C21_Witness ==
    /\ InvalidFeedIdServed
    /\ req.w.StatusCode = 400
    /\ Len(req.w.Body) = 2
    /\ req.inserted = 1
    /\ CopiesIn([UserID |-> "user", FeedID |-> Nil], follows) >= 1

====
